---- MODULE Spec2Model ----
(***************************************************************************)
(* Intent routing and conversation state of the NL2SQL service:            *)
(*   app/cache            the shared key/value store (get/set/delete, TTL) *)
(*   ChatHistoryManager   sessions, bounded message history, stats         *)
(*   NL2SQLService        result cache (last sql / last rows) and run      *)
(*   BaseAgent / NL2SQLAgent   the generation backend as seen by run       *)
(*   RegexClassifier / SemanticClassifier / BaseClassifier                 *)
(*                                                                         *)
(* Absent values (Python None, a missing key) are the empty sequence and   *)
(* a present value v is the one-element sequence <<v>>.                    *)
(***************************************************************************)
EXTENDS Integers, Sequences, FiniteSets, TLC

(***************************************************************************)
(* Bounds of the model.                                                    *)
(***************************************************************************)
\* max_cnt argument of ChatHistoryManager (the "max turns" of a session)
MaxTurns == 1
\* number of messages add_message can build (message ids 1..MaxMsgs)
MaxMsgs == 4
\* longest normalized input text, in characters
MaxTextLen == 4
\* number of classifier objects the factory constructs
MaxBuilt == 3
MaxProcessed == 3
MaxDispatch == 2
\* the clock of the in-memory cache runs from 0 to MaxTime
MaxTime == 3

None == <<>>
Some(v) == <<v>>
IsSome(o) == o # <<>>
TheVal(o) == o[1]

Min(a, b) == IF a <= b THEN a ELSE b

SessionIds == {1, 2}
\* a falsy session id (None or the empty string) handed to run
NoSession == 0
Procs == {1, 2}

(***************************************************************************)
(* Keys of the shared store.                                               *)
(***************************************************************************)
get_session_key_shared(s) == <<"chat_history", 1>>
get_session_key(s) == <<"chat_history", s>>
get_session_stats_key(s) == <<"chat_stats", s>>
get_sql_key(s) == <<"res_sql", s>>
get_exec_res_key_same(s) == <<"res_sql", s>>
get_exec_res_key(s) == <<"res_exec_res", s>>

Keys == {"chat_history", "chat_stats", "res_sql", "res_exec_res"} \X SessionIds

VARIABLES
    store,      \* the shared store: key -> None | Some(value)
    up,         \* whether the store backend can be reached
    nextSid,    \* number of session ids minted by create_session
    nextId,     \* number of messages built by add_message
    am,         \* add_message calls in flight, one slot per caller
    se,         \* store_exec_result calls in flight, one slot per caller
    resp,       \* outcome of the last run call
    cls,        \* the last text classified and what the classifiers made of it
    log,        \* history: per session, the messages appended since the list was last absent
    lastOk,     \* history: per session, the outcome of the last SQL_QUERY the backend resolved
    lastStore,  \* history: per session, the pair of the last undisturbed store_exec_result
    added,      \* outcome of the last add_message call made in one piece
    factory,    \* IntentClassifierFactory: its instances and what it answered
    rx,         \* the pattern classifier's raw and compiled pattern maps
    sem,        \* the similarity classifier's example lists and embedding blocks
    agent,      \* the last call of the generation backend and its answer
    seen,       \* what the last read of the history returned
    slack,      \* the Slack events endpoint: processed_events and the dispatches to run
    mc          \* a MemoryCache: its items, its lock, the clock

vars == <<store, up, nextSid, nextId, am, se, resp, cls, log, lastOk, lastStore, added,
         factory, rx, sem, agent, seen, slack, mc>>

(***************************************************************************)
(* The shared store (app/cache).  get answers None when the key is absent  *)
(* or the backend cannot be reached; set and delete change nothing when    *)
(* the backend cannot be reached and do not raise.                         *)
(***************************************************************************)
CacheGet(st, k) == IF up THEN st[k] ELSE None
CacheSet(st, k, v) == IF up THEN [st EXCEPT ![k] = Some(v)] ELSE st
CacheDelete(st, k) == IF up THEN [st EXCEPT ![k] = None] ELSE st

\* Python's "x or default" on the answer of get: None and an empty value give the default
OrElse(o, default) == IF IsSome(o) /\ TheVal(o) # default THEN TheVal(o) ELSE default

(***************************************************************************)
(* ChatHistoryManager                                                      *)
(***************************************************************************)
\* self.max_cnt = max_cnt * 2
max_cnt == MaxTurns * 2

NoMsg == [id |-> 0, role |-> "user", content |-> ""]
Message(i, role, content) == [id |-> i, role |-> role, content |-> content]

LastN(h, n) == IF Len(h) > n THEN SubSeq(h, Len(h) - n + 1, Len(h)) ELSE h

\* add_message: append, then keep only the last max_cnt messages
TruncateNever(h) == h
TruncateOldest(h) == IF Len(h) > max_cnt THEN SubSeq(h, 1, max_cnt) ELSE h
Truncate(h) == IF Len(h) > max_cnt THEN LastN(h, max_cnt) ELSE h
NewHistory(cur, msg) == Truncate(Append(cur, msg))

\* cache.set(history_key, current_history): the list read earlier with the message
\* appended is written whole, whatever the key holds by now
SavedHistoryAppend(cur, stored, msg) == NewHistory(stored, msg)
SavedHistory(cur, stored, msg) == cur

InSeq(h, x) == \E i \in 1..Len(h) : h[i] = x

\* create_session: the initial stats record
InitialStats == [created |-> TRUE, message_count |-> 0]
\* the {} used when no stats record is stored
EmptyStats == [created |-> FALSE, message_count |-> 0]
\* _update_session_stats: stats.get("message_count", 0) + 1
BumpStats(st) == [st EXCEPT !.message_count = @ + 1]

StatsOr(o) == IF IsSome(o) THEN TheVal(o) ELSE EmptyStats

\* add_message run without suspension: both writes of one call
AddMessageAll(st, s, msg) ==
    LET st1 == CacheSet(st, get_session_key(s),
                        NewHistory(OrElse(CacheGet(st, get_session_key(s)), <<>>), msg))
    IN  CacheSet(st1, get_session_stats_key(s),
                 BumpStats(StatsOr(CacheGet(st1, get_session_stats_key(s)))))

\* get_history(session, limit, include_system); limit 0 stands for None
GetHistory(st, s, limit, include_system) ==
    LET history == OrElse(CacheGet(st, get_session_key(s)), <<>>)
        kept == IF include_system THEN history
                ELSE SelectSeq(history, LAMBDA msg : msg.role # "system")
    IN  IF limit # 0 THEN LastN(kept, limit) ELSE kept

\* get_session_stats(session): not-found when no stats record can be read
GetSessionStats(st, s) ==
    LET stats == CacheGet(st, get_session_stats_key(s))
    IN  IF IsSome(stats)
        THEN [error |-> "", stats |-> TheVal(stats),
              current_message_count |-> Len(GetHistory(st, s, 0, FALSE))]
        ELSE [error |-> "Session not found"]

\* get_conversation_context(session, limit): the lines "Role: content"
GetConversationContext(st, s, limit) ==
    LET history == GetHistory(st, s, limit, FALSE)
    IN  [i \in 1..Len(history) |-> <<history[i].role, history[i].content>>]

\* a get leaves the key as it is
StoreAfterGetPop(st, k) == [st EXCEPT ![k] = None]
StoreAfterGet(st, k) == st

IdleAm == [pc |-> "idle", sid |-> 0, msg |-> NoMsg, cur |-> <<>>, st |-> EmptyStats]
IdleSe == [pc |-> "idle", sid |-> 0, sql |-> "", rows |-> <<>>, second |-> FALSE, clean |-> FALSE,
           old |-> None]

AmBusy(s) == \E p \in Procs : am[p].pc # "idle" /\ am[p].sid = s
SeBusy(s) == \E p \in Procs : se[p].pc # "idle" /\ se[p].sid = s

Minted == 1..nextSid

\* history bookkeeping: the messages written to the list of s by calls issued one after
\* another; once calls overlap, or the list is cleared or expires, nothing is recorded
NotClean == [msgs |-> <<>>, clean |-> FALSE, cleared |-> FALSE]
\* clear_history has returned true and nothing was written to the session since
Cleared == [msgs |-> <<>>, clean |-> FALSE, cleared |-> TRUE]
Disturbed(s) == [log EXCEPT ![s] = NotClean]
Logged(s, msgs, disturbed) ==
    IF log[s].clean /\ ~disturbed
    THEN [log EXCEPT ![s].msgs = @ \o msgs]
    ELSE Disturbed(s)

(***************************************************************************)
(* create_session(): mint an id and write the initial stats.               *)
(***************************************************************************)
CreateSession(n) ==
    /\ nextSid < n
    /\ nextSid' = nextSid + 1
    /\ store' = CacheSet(store, get_session_stats_key(nextSid + 1), InitialStats)
    /\ UNCHANGED <<up, nextId, am, se, resp, cls, log, lastOk, lastStore, added, factory, rx, sem, agent, seen, slack, mc>>

(***************************************************************************)
(* add_message(session, role, content), one step per store call.           *)
(***************************************************************************)
AmRead(p, s, role) ==
    /\ am[p].pc = "idle"
    /\ nextId < MaxMsgs
    /\ nextId' = nextId + 1
    /\ LET msg == Message(nextId + 1, role, "m")
       IN  am' = [am EXCEPT ![p] = [pc |-> "got", sid |-> s, msg |-> msg,
                     cur |-> NewHistory(OrElse(CacheGet(store, get_session_key(s)), <<>>), msg),
                     st |-> EmptyStats]]
    /\ log' = IF AmBusy(s) \/ ~up THEN Disturbed(s) ELSE log
    /\ UNCHANGED <<store, up, nextSid, se, resp, cls, lastOk, lastStore, added, factory, rx, sem, agent, seen, slack, mc>>

AmWrite(p) ==
    /\ am[p].pc = "got"
    /\ store' = CacheSet(store, get_session_key(am[p].sid),
                          SavedHistory(am[p].cur, OrElse(store[get_session_key(am[p].sid)], <<>>),
                                       am[p].msg))
    /\ am' = [am EXCEPT ![p].pc = "stats"]
    /\ log' = Logged(am[p].sid, <<am[p].msg>>, ~up)
    /\ UNCHANGED <<up, nextSid, nextId, se, resp, cls, lastOk, lastStore, added, factory, rx, sem, agent, seen, slack, mc>>

AmStatsRead(p) ==
    /\ am[p].pc = "stats"
    /\ am' = [am EXCEPT ![p].pc = "statsw",
                        ![p].st = BumpStats(StatsOr(CacheGet(store, get_session_stats_key(am[p].sid))))]
    /\ UNCHANGED <<store, up, nextSid, nextId, se, resp, cls, log, lastOk, lastStore, added, factory, rx, sem, agent, seen, slack, mc>>

AmStatsWrite(p) ==
    /\ am[p].pc = "statsw"
    /\ store' = CacheSet(store, get_session_stats_key(am[p].sid), am[p].st)
    /\ am' = [am EXCEPT ![p] = IdleAm]
    /\ log' = IF log[am[p].sid].cleared THEN Disturbed(am[p].sid) ELSE log
    /\ UNCHANGED <<up, nextSid, nextId, se, resp, cls, lastOk, lastStore, added, factory, rx, sem, agent, seen, slack, mc>>

(***************************************************************************)
(* clear_history(session): delete the message list and the stats record.   *)
(***************************************************************************)
ClearHistory(s) ==
    /\ store' = CacheDelete(CacheDelete(store, get_session_key(s)), get_session_stats_key(s))
    /\ log' = [log EXCEPT ![s] = Cleared]
    /\ UNCHANGED <<up, nextSid, nextId, am, se, resp, cls, lastOk, lastStore, added, factory, rx, sem, agent, seen, slack, mc>>

(***************************************************************************)
(* A key written with a TTL expires.                                       *)
(***************************************************************************)
Expire(k) ==
    /\ IsSome(store[k])
    /\ store' = [store EXCEPT ![k] = None]
    /\ log' = IF k[1] = "chat_history" THEN Disturbed(k[2]) ELSE log
    /\ lastOk' = IF k[1] \in {"res_sql", "res_exec_res"} THEN [lastOk EXCEPT ![k[2]] = None] ELSE lastOk
    /\ lastStore' = IF k[1] \in {"res_sql", "res_exec_res"} THEN [lastStore EXCEPT ![k[2]] = None] ELSE lastStore
    /\ se' = [p \in Procs |-> IF se[p].pc # "idle" /\ se[p].sid = k[2] /\ k[1] \in {"res_sql", "res_exec_res"}
                              THEN [se[p] EXCEPT !.clean = FALSE] ELSE se[p]]
    /\ UNCHANGED <<up, nextSid, nextId, am, resp, cls, added, factory, rx, sem, agent, seen, slack, mc>>

Init ==
    /\ store = [k \in Keys |-> None]
    /\ up = TRUE
    /\ nextSid = 0
    /\ nextId = 0
    /\ am = [p \in Procs |-> IdleAm]
    /\ se = [p \in Procs |-> IdleSe]
    /\ resp = [status |-> "none"]
    /\ cls = None
    /\ log = [s \in SessionIds |-> [msgs |-> <<>>, clean |-> TRUE, cleared |-> FALSE]]
    /\ lastOk = [s \in SessionIds |-> None]
    /\ lastStore = [s \in SessionIds |-> None]
    /\ added = None
    /\ factory = [instances |-> {}, built |-> 0, served |-> {}, last |-> None]
    /\ rx = None
    /\ sem = None
    /\ agent = None
    /\ seen = None
    /\ slack = [processed_events |-> {}, runs |-> [e \in 1..(MaxProcessed + 1) |-> 0],
                last |-> [event_ts |-> 0, status |-> "none"]]
    /\ mc = [cache |-> [k \in {"k1", "k2"} |-> None], now |-> 0, lock |-> 0, blocked |-> {},
             lastSet |-> [k \in {"k1", "k2"} |-> None], last |-> [op |-> "none"]]

NextHistory ==
    \/ CreateSession(1)
    \/ \E p \in Procs, s \in Minted, role \in {"user", "system"} : AmRead(p, s, role)
    \/ \E p \in Procs : AmWrite(p)
    \/ \E p \in Procs : AmStatsRead(p)
    \/ \E p \in Procs : AmStatsWrite(p)
    \/ \E s \in Minted : ClearHistory(s)
    \/ \E k \in Keys : Expire(k)

SpecHistory == Init /\ [][NextHistory]_vars

(***************************************************************************)
(* The store backend becomes unreachable, or reachable again.              *)
(***************************************************************************)
Outage ==
    /\ up' = ~up
    /\ UNCHANGED <<store, nextSid, nextId, am, se, resp, cls, log, lastOk, lastStore, added, factory, rx, sem, agent, seen, slack, mc>>

\* what add_message returns: neither the store calls nor _update_session_stats raise,
\* so the try block always reaches "return True"
AddMessageReturn(failed) == TRUE

\* add_message(session, role, content) by a single caller, run without suspension
AddMessage(s, role) ==
    LET msg == Message(nextId + 1, role, "m")
        st1 == AddMessageAll(store, s, msg)
    IN  /\ ~AmBusy(s)
        /\ nextId < MaxMsgs
        /\ nextId' = nextId + 1
        /\ store' = st1
        /\ added' = Some([sid |-> s, msg |-> msg, failed |-> ~up,
                          ret |-> AddMessageReturn(~up),
                          calls |-> (IF IsSome(added) /\ TheVal(added).sid = s
                                     THEN TheVal(added).calls ELSE 0)
                                    + (IF AddMessageReturn(~up) THEN 1 ELSE 0),
                          written |-> InSeq(OrElse(st1[get_session_key(s)], <<>>), msg)])
        /\ log' = Logged(s, <<msg>>, ~up)
        /\ UNCHANGED <<up, nextSid, am, se, resp, cls, lastOk, lastStore, factory, rx, sem, agent, seen, slack, mc>>

NextOutage ==
    \/ CreateSession(1)
    \/ \E s \in Minted, role \in {"user", "assistant", "system"} : AddMessage(s, role)
    \/ \E s \in Minted : ClearHistory(s)
    \/ Outage

SpecOutage == Init /\ [][NextOutage]_vars

\* a session written only by add_message calls issued one after another
NextStats ==
    \/ CreateSession(1)
    \/ \E s \in Minted, role \in {"user", "assistant", "system"} : AddMessage(s, role)
    \/ Outage

SpecStats == Init /\ [][NextStats]_vars

(***************************************************************************)
(* Intent classifiers.  Confidences are in units of 1/10000.  An input     *)
(* text is described by what the regex engine and the similarity backend   *)
(* answer for it: its length after strip().lower(), for each pattern the   *)
(* length of its match (NoMatch: search() finds nothing; 0: it matches the *)
(* empty string), and the best example's intent name and similarity        *)
(* ("none": no example to compare with).                                   *)
(***************************************************************************)
Intents == {"greeting", "sql_query", "show_sql", "export_csv", "unknown"}

\* keys of the pattern map, in file order; "help" is a key that is no Intent value
PatternNames == <<"greeting", "show_sql", "export_csv", "help">>
BestNames == Intents \cup {"help", "none"}
SimLevels == {0, 5999, 6000}

\* pattern.search(text) is None
NoMatch == -1

Texts ==
    {t \in [len : 0..MaxTextLen, m : [1..Len(PatternNames) -> NoMatch..MaxTextLen],
            best : BestNames, sim : SimLevels] :
        \A i \in 1..Len(PatternNames) : t.m[i] <= t.len}

\* IntentResult(intent, confidence), and a classification that raises instead
IntentResult(intent, confidence) == [intent |-> intent, confidence |-> confidence, exc |-> ""]
ClassifyRaised(exc) == [intent |-> "-", confidence |-> 0, exc |-> exc]

\* Intent(name), with the ValueError branch
ToIntent(name) == IF name \in Intents THEN name ELSE "sql_query"

\* min(0.9, (match_length / text_length) * 1.2), 0.95 when the match is the whole text;
\* the quotient is cut to four digits first, which is how 2/3 * 1.2 falls below 0.8
MatchConfidence(mlen, tlen) ==
    IF mlen = tlen THEN 9500 ELSE Min(9000, (((mlen * 10000) \div tlen) * 12) \div 10)

\* the loop over compiled_patterns; match_length / text_length raises on an empty text
RECURSIVE RegexBest(_, _, _)
RegexBest(t, i, best) ==
    IF i > Len(PatternNames) \/ best.exc # "" THEN best
    ELSE IF t.m[i] = NoMatch THEN RegexBest(t, i + 1, best)
    ELSE IF t.len = 0 THEN [best EXCEPT !.exc = "ZeroDivisionError"]
    ELSE LET confidence == MatchConfidence(t.m[i], t.len)
         IN  RegexBest(t, i + 1,
                 IF confidence > best.confidence
                 THEN [best EXCEPT !.name = PatternNames[i], !.confidence = confidence]
                 ELSE best)

RegexClassifyInternal(t) ==
    LET b == RegexBest(t, 1, [name |-> "", confidence |-> 0, exc |-> ""])
    IN  IF b.exc # "" THEN ClassifyRaised(b.exc)
        ELSE IF b.name # ""
        THEN IntentResult(ToIntent(b.name), b.confidence)
        ELSE IntentResult("sql_query", 1000)

SemanticClassifyInternal(t) ==
    IF t.best # "none"
    THEN IntentResult(ToIntent(t.best), t.sim)
    ELSE IntentResult("sql_query", 1000)

\* BaseClassifier.classify: the fallback intent at confidence 0.1 below the threshold
BaseClassify(result, threshold, fallback) ==
    IF result.exc # "" THEN result
    ELSE IF result.confidence < threshold
    THEN IntentResult(fallback, 1000)
    ELSE result

is_confident(result, threshold) == result.confidence >= threshold

\* the classifiers of NL2SQLService
RegexThreshold == 8000
SemanticThreshold == 6000
RegexFallback == "unknown"
SemanticFallback == "unknown"

RegexClassify(t) == BaseClassify(RegexClassifyInternal(t), RegexThreshold, RegexFallback)
SemanticClassify(t) == BaseClassify(SemanticClassifyInternal(t), SemanticThreshold, SemanticFallback)

\* run, intent classification: the regex result if confident, else the semantic result
RunIntentRegexOnly(regex_result, semantic_result) == regex_result.intent
RunIntent(regex_result, semantic_result) ==
    IF is_confident(regex_result, RegexThreshold)
    THEN regex_result.intent
    ELSE semantic_result.intent

\* run, intent classification: what it records in trace_outputs, unless classify raised
TraceOutputs(t) ==
    LET regex_result == RegexClassify(t)
        semantic_result == SemanticClassify(t)
    IN  IF regex_result.exc # ""
        THEN [method |-> "raised", intent |-> "-", exc |-> regex_result.exc]
        ELSE [method |-> IF is_confident(regex_result, RegexThreshold)
                         THEN "regex" ELSE "semantic_fallback",
              intent |-> RunIntent(regex_result, semantic_result), exc |-> ""]
Traces == {TraceOutputs(t) : t \in Texts}

\* the classification step of run on text t (it reads no state: one text per behaviour)
Classify(t) ==
    /\ cls = None
    /\ cls' = Some([text |-> t,
                    guess |-> RegexClassifyInternal(t),
                    regex |-> RegexClassify(t),
                    sguess |-> SemanticClassifyInternal(t),
                    semantic |-> SemanticClassify(t),
                    trace |-> TraceOutputs(t)])
    /\ UNCHANGED <<store, up, nextSid, nextId, am, se, resp, log, lastOk, lastStore, added, factory, rx, sem, agent, seen, slack, mc>>

(***************************************************************************)
(* NL2SQLService: the result cache.                                        *)
(***************************************************************************)
RowSeqs == {<<>>, <<"r1">>, <<"r1", "r2">>}

get_last_sql(st, s) == CacheGet(st, get_sql_key(s))
get_last_exec_res(st, s) == CacheGet(st, get_exec_res_key(s))

\* store_exec_result run without suspension: both writes
StoreExecResultAll(st, s, sql, res) ==
    CacheSet(CacheSet(st, get_sql_key(s), sql), get_exec_res_key(s), res)

\* the two store calls of store_exec_result, in the order it makes them
FirstSetRows(st, s, sql, res) == CacheSet(st, get_exec_res_key(s), res)
FirstSet(st, s, sql, res) == CacheSet(st, get_sql_key(s), sql)
SecondSet(st, s, sql, res) == CacheSet(st, get_exec_res_key(s), res)

\* store_exec_result(session, sql, res), one step per store call; old is the pair the
\* last completed store left, when nothing touched it since
SeSetSql(p, s, sql, res) ==
    /\ se[p].pc = "idle"
    /\ store' = FirstSet(store, s, sql, res)
    /\ se' = [q \in Procs |->
                IF q = p THEN [pc |-> "sql_set", sid |-> s, sql |-> sql, rows |-> res,
                               second |-> store[get_sql_key(s)] \notin {None, Some(sql)},
                               clean |-> up /\ ~SeBusy(s),
                               old |-> IF IsSome(lastStore[s])
                                       THEN Some([sql |-> TheVal(lastStore[s]).sql,
                                                  rows |-> TheVal(lastStore[s]).rows])
                                       ELSE None]
                ELSE IF se[q].pc # "idle" /\ se[q].sid = s THEN [se[q] EXCEPT !.clean = FALSE]
                ELSE se[q]]
    /\ lastStore' = [lastStore EXCEPT ![s] = None]
    /\ UNCHANGED <<up, nextSid, nextId, am, resp, cls, log, lastOk, added, factory, rx, sem, agent, seen, slack, mc>>

SeSetRows(p) ==
    /\ se[p].pc = "sql_set"
    /\ store' = SecondSet(store, se[p].sid, se[p].sql, se[p].rows)
    /\ se' = [se EXCEPT ![p] = IdleSe]
    /\ lastStore' = [lastStore EXCEPT ![se[p].sid] =
                        IF se[p].clean /\ up
                        THEN Some([sql |-> se[p].sql, rows |-> se[p].rows, second |-> se[p].second])
                        ELSE None]
    /\ UNCHANGED <<up, nextSid, nextId, am, resp, cls, log, lastOk, added, factory, rx, sem, agent, seen, slack, mc>>

(***************************************************************************)
(* The generation backend as run sees it.  An outcome of the agent         *)
(* executor is either a result (sql, rows) or an exception.                *)
(***************************************************************************)
BackendOutcomes ==
    {[err |-> FALSE, sql |-> q, rows |-> r] : q \in {"", "SELECT 1"}, r \in RowSeqs}
        \cup {[err |-> TRUE, sql |-> "", rows |-> <<>>]}

InterpretedAnswer == "interpreted answer"
ErrorAnswer == "Error processing question: e"

\* NL2SQLAgent._process_question: the dict it returns
ProcessQuestion(o) ==
    IF ~o.err
    THEN [answer |-> InterpretedAnswer,
          structured_response |-> [interpreted_answer |-> InterpretedAnswer,
                                   sql_query |-> o.sql, exec_result |-> o.rows],
          metadata |-> [model |-> "gpt-4", sql_query |-> o.sql,
                        result_count |-> Len(o.rows), exec_result |-> o.rows]]
    ELSE [answer |-> ErrorAnswer,
          structured_response |-> [interpreted_answer |-> ErrorAnswer,
                                   sql_query |-> "", exec_result |-> <<>>],
          metadata |-> [model |-> "gpt-4", error |-> "e"]]

\* BaseAgent.ask: the dict it returns; add_message and _process_question do not raise,
\* so the try block completes
AskResult(question, s, result) ==
    [question |-> question, answer |-> result.answer, session_id |-> s, success |-> TRUE]
        @@ [k \in DOMAIN result \ {"answer", "metadata"} |-> result[k]]

\* BaseAgent.ask: the user message and the assistant message it adds to the history
AskStore(st, s, question, result) ==
    AddMessageAll(AddMessageAll(st, s, Message(nextId + 1, "user", question)),
                  s, Message(nextId + 2, "assistant", result.answer))

(***************************************************************************)
(* NL2SQLService.run(question, session_id)                                 *)
(***************************************************************************)
Str(v) == [t |-> "str", v |-> v]
RowData(v) == [t |-> "rows", v |-> v]

HelloAnswer == "Hello, how can I help you?"
NoQueryAnswer == "No SQL query was excuted for your previous request."
ShowSqlAnswer == "Here is the SQL Query I used to get the data:\n"
DownloadAnswer == "Here is the download link of csv file showing the result:\n"

ExportOutcomes == {"url", "raise"}

\* res = NL2SQLServiceResponse(answer="", success=False, data="", type="text")
DefaultResAnswered(s) ==
    [session_id |-> s, answer |-> "Hello, how can I help you?", success |-> FALSE,
     data |-> [t |-> "str", v |-> ""], type |-> "text"]
DefaultRes(s) ==
    [session_id |-> s, answer |-> "", success |-> FALSE, data |-> Str(""), type |-> "text"]

Returned(res) == res @@ [status |-> "returned", exc |-> ""]
Raised(s, exc) == DefaultRes(s) @@ [status |-> "raised", exc |-> exc]

\* the GREETING branch
RunGreetingUnset(res) == [res EXCEPT !.answer = HelloAnswer]
RunGreeting(res) == [res EXCEPT !.answer = HelloAnswer, !.success = TRUE]

\* the SQL_QUERY branch after ask returned agent_res: the store and the outcome
RunSqlQuery(st, res, agent_res) ==
    IF agent_res.success
    THEN IF "metadata" \notin DOMAIN agent_res
            \/ {"sql_query", "exec_result"} \ DOMAIN agent_res.metadata # {}
         THEN [store |-> st, out |-> Raised(res.session_id, "KeyError")]
         ELSE LET data == agent_res.structured_response.exec_result
              IN  [store |-> StoreExecResultAll(st, res.session_id,
                                 agent_res.metadata.sql_query, agent_res.metadata.exec_result),
                   out |-> Returned([res EXCEPT
                                 !.data = RowData(data),
                                 !.success = TRUE,
                                 !.type = IF Len(data) > 1 THEN "table" ELSE "text",
                                 !.answer = agent_res.structured_response.interpreted_answer])]
    ELSE IF "structured_response" \notin DOMAIN agent_res
         THEN [store |-> st, out |-> Raised(res.session_id, "KeyError")]
         ELSE [store |-> st,
               out |-> Returned([res EXCEPT
                                 !.answer = agent_res.structured_response.interpreted_answer])]

\* the SHOW_SQL branch
RunShowSqlRows(st, res) ==
    LET sql == get_last_sql(st, res.session_id)
    IN  IF IsSome(sql) /\ TheVal(sql) # ""
        THEN [res EXCEPT !.success = TRUE, !.data = RowData(<<TheVal(sql)>>), !.type = "sql",
                         !.answer = ShowSqlAnswer]
        ELSE [res EXCEPT !.answer = NoQueryAnswer]
RunShowSql(st, res) ==
    LET sql == get_last_sql(st, res.session_id)
    IN  IF IsSome(sql) /\ TheVal(sql) # ""
        THEN [res EXCEPT !.success = TRUE, !.data = Str(TheVal(sql)), !.type = "sql",
                         !.answer = ShowSqlAnswer]
        ELSE [res EXCEPT !.answer = NoQueryAnswer]

\* the EXPORT_CSV branch; x is what create_and_upload_csv does
RunExportCsv(st, res, x) ==
    LET exec_res == get_last_exec_res(st, res.session_id)
    IN  IF IsSome(exec_res) /\ TheVal(exec_res) # <<>>
        THEN IF x = "raise"
             THEN Raised(res.session_id, "ExportError")
             ELSE Returned([res EXCEPT !.data = Str(x), !.success = TRUE, !.type = "download",
                                       !.answer = DownloadAnswer])
        ELSE Returned([res EXCEPT !.answer = NoQueryAnswer])

\* the store after the branches that only read: SHOW_SQL and EXPORT_CSV do one get each,
\* the other branches no store call
ReadBranchStoreDropped(st, s, intent) ==
    IF intent = "show_sql" THEN [st EXCEPT ![get_sql_key(s)] = None]
    ELSE IF intent = "export_csv" THEN [st EXCEPT ![get_exec_res_key(s)] = None]
    ELSE st
ReadBranchStore(st, s, intent) ==
    IF intent = "show_sql" THEN StoreAfterGet(st, get_sql_key(s))
    ELSE IF intent = "export_csv" THEN StoreAfterGet(st, get_exec_res_key(s))
    ELSE st

\* what the caller of run observes, with the facts of the call the claims speak about
Observed(out, sid, tr, o, st0, st1) ==
    LET s == out.session_id
        newer == SelectSeq(GetHistory(st1, s, 0, TRUE), LAMBDA msg : msg.id > nextId)
        shown == SelectSeq(GetHistory(st1, s, 0, FALSE), LAMBDA msg : msg.id > nextId)
    IN  out @@ [minted |-> (sid = NoSession), fresh |-> (s \notin Minted),
                intent |-> tr.intent, backend |-> o,
                pre |-> [sql |-> st0[get_sql_key(s)], rows |-> st0[get_exec_res_key(s)]],
                post |-> [sql |-> st1[get_sql_key(s)], rows |-> st1[get_exec_res_key(s)]],
                appended |-> [i \in 1..Len(newer) |-> <<newer[i].role, newer[i].content>>],
                visible |-> [i \in 1..Len(shown) |-> <<shown[i].role, shown[i].content>>]]

Run(sid, tr) ==
    LET s == IF sid = NoSession THEN nextSid + 1 ELSE sid
        st0 == IF sid = NoSession
               THEN CacheSet(store, get_session_stats_key(s), InitialStats)
               ELSE store
        res == DefaultRes(s)
        intent == tr.intent
    IN  /\ sid = NoSession => nextSid < Cardinality(SessionIds)
        /\ nextSid' = IF sid = NoSession THEN nextSid + 1 ELSE nextSid
        /\ IF tr.method = "raised"
           THEN /\ store' = st0
                /\ resp' = Observed(Raised(s, tr.exc), sid, tr, "-", st0, st0)
                /\ UNCHANGED <<nextId, log, lastOk, lastStore>>
           ELSE IF intent = "sql_query"
           THEN \E o \in BackendOutcomes :
                LET result == ProcessQuestion(o)
                    st1 == AskStore(st0, s, "question", result)
                    r == RunSqlQuery(st1, res, AskResult("question", s, result))
                IN  /\ nextId + 2 <= MaxMsgs
                    /\ nextId' = nextId + 2
                    /\ store' = r.store
                    /\ resp' = Observed(r.out, sid, tr, IF o.err THEN "error" ELSE "ok", st0,
                                           r.store)
                    /\ log' = Logged(s, <<Message(nextId + 1, "user", "question"),
                                           Message(nextId + 2, "assistant", result.answer)>>,
                                     AmBusy(s) \/ ~up)
                    /\ lastOk' = IF o.err THEN lastOk
                                 ELSE [lastOk EXCEPT ![s] = Some([sql |-> o.sql, rows |-> o.rows])]
                    /\ lastStore' = IF r.store[get_sql_key(s)] = st1[get_sql_key(s)]
                                       /\ r.store[get_exec_res_key(s)] = st1[get_exec_res_key(s)]
                                    THEN lastStore ELSE [lastStore EXCEPT ![s] = None]
           ELSE /\ store' = ReadBranchStore(st0, s, intent)
                /\ \E x \in IF intent = "export_csv" THEN ExportOutcomes ELSE {"url"} :
                     resp' = Observed(
                              CASE intent = "greeting" -> Returned(RunGreeting(res))
                                [] intent = "show_sql" -> Returned(RunShowSql(st0, res))
                                [] intent = "export_csv" -> RunExportCsv(st0, res, x)
                                [] OTHER -> Returned(res),
                              sid, tr, "-", st0, ReadBranchStore(st0, s, intent))
                /\ UNCHANGED <<nextId, log, lastOk, lastStore>>
        /\ UNCHANGED <<up, am, se, cls, added, factory, rx, sem, agent, seen, slack, mc>>

NextRun ==
    \/ \E sid \in {NoSession} \cup Minted, tr \in Traces : Run(sid, tr)
    \/ \E s \in Minted : ClearHistory(s)
    \/ \E k \in Keys : Expire(k)

SpecRun == Init /\ [][NextRun]_vars

\* the service on one session, with store_exec_result also called directly by one
\* caller at a time
NextService ==
    \/ \E sid \in (IF nextSid = 0 THEN {NoSession} ELSE Minted), tr \in Traces : Run(sid, tr)
    \/ \E s \in Minted, sql \in {"", "SELECT 1"}, res \in {<<>>, <<"r1">>} :
          SeSetSql(1, s, sql, res)
    \/ SeSetRows(1)
    \/ \E s \in SessionIds : \E k \in {get_sql_key(s), get_exec_res_key(s)} : Expire(k)

SpecService == Init /\ [][NextService]_vars

\* the result cache of one session alone, written by two callers
NextCache ==
    \/ CreateSession(1)
    \/ \E p \in Procs, s \in Minted, sql \in {"SELECT 1", "SELECT 2"},
          res \in {<<"r1">>, <<"r1", "r2">>} : SeSetSql(p, s, sql, res)
    \/ \E p \in Procs : SeSetRows(p)
    \/ \E s \in Minted : ClearHistory(s)
    \/ \E k \in Keys : Expire(k)

SpecCache == Init /\ [][NextCache]_vars

\* two sessions: the calls on one session are issued one after another and interleave
\* with the calls on the other at every store call; run is called once
Free(s) == ~AmBusy(s) /\ ~SeBusy(s)

NextSessions ==
    \/ CreateSession(2)
    \/ \E s \in Minted : Free(s) /\ AmRead(1, s, "user")
    \/ AmWrite(1)
    \/ AmStatsRead(1)
    \/ AmStatsWrite(1)
    \/ \E s \in Minted : Free(s) /\ ClearHistory(s)
    \/ \E s \in Minted : Free(s) /\ SeSetSql(1, s, "SELECT 1", <<"r1">>)
    \/ SeSetRows(1)
    \/ resp.status = "none" /\ \E sid \in Minted : Free(sid) /\ \E tr \in Traces : Run(sid, tr)

SpecSessions == Init /\ [][NextSessions]_vars

NextClassify == cls = None /\ \E t \in Texts : Classify(t)

SpecClassify == Init /\ [][NextClassify]_vars

(***************************************************************************)
(* IntentClassifierFactory.  _instances is a set of (key, instance) pairs; *)
(* an instance is what its constructor made of the arguments.              *)
(***************************************************************************)
serviceVars == <<store, up, nextSid, nextId, am, se, resp, cls, log, lastOk, lastStore, added>>
readVars == <<up, nextSid, nextId, am, se, resp, cls, log, lastOk, lastStore, added, factory,
              rx, sem, agent, slack, mc>>

FactoryThresholds == {6000, 8000}
FactoryFallbacks == {"unknown", "sql_query"}

\* _default_configs
DefaultConfig(type) ==
    IF type = "regex" THEN [threshold |-> 8000, fallback |-> "unknown"]
    ELSE [threshold |-> 6000, fallback |-> "sql_query"]

\* _get_config: the defaults, overridden by the arguments that are not None
GetConfig(type, th, fb) ==
    [threshold |-> IF IsSome(th) THEN TheVal(th) ELSE DefaultConfig(type).threshold,
     fallback |-> IF IsSome(fb) THEN TheVal(fb) ELSE DefaultConfig(type).fallback]

\* the keys f"regex_{threshold}" and f"semantic_{threshold}_{fallback}"
RegexKey(config) == <<"regex", config.threshold, "">>
SemanticKey(config) == <<"semantic", config.threshold, config.fallback>>

\* RegexClassifier(confidence_threshold=...): super().__init__(confidence_threshold)
NewRegexClassifier(id, threshold) ==
    [id |-> id, type |-> "regex", threshold |-> threshold, fallback |-> "unknown"]

Lookup(key) == {e \in factory.instances : e.key = key}

Serve(type, config, inst) ==
    [type |-> type, threshold |-> config.threshold, fallback |-> config.fallback, inst |-> inst]

get_regex_classifier(th, fb) ==
    LET config == GetConfig("regex", th, fb)
        key == RegexKey(config)
        inst == IF Lookup(key) # {} THEN (CHOOSE e \in Lookup(key) : TRUE).inst
                ELSE NewRegexClassifier(factory.built + 1, config.threshold)
    IN  /\ Lookup(key) = {} => factory.built < MaxBuilt
        /\ factory' = [instances |-> factory.instances \cup {[key |-> key, inst |-> inst]},
                       built |-> IF Lookup(key) = {} THEN factory.built + 1 ELSE factory.built,
                       served |-> factory.served \cup {Serve("regex", config, inst)},
                       last |-> Some([status |-> "returned", type |-> "regex"])]
        /\ UNCHANGED <<serviceVars, rx, sem, agent, seen, slack, mc>>

\* SemanticClassifier.__init__ takes no fallback_intent: constructing one raises TypeError,
\* and nothing is ever stored under a semantic key
get_semantic_classifier(th, fb) ==
    LET config == GetConfig("semantic", th, fb)
        key == SemanticKey(config)
    IN  /\ factory' = [factory EXCEPT
                !.served = IF Lookup(key) # {}
                           THEN @ \cup {Serve("semantic", config, (CHOOSE e \in Lookup(key) : TRUE).inst)}
                           ELSE @,
                !.last = IF Lookup(key) # {}
                         THEN Some([status |-> "returned", type |-> "semantic"])
                         ELSE Some([status |-> "TypeError", type |-> "semantic"])]
        /\ UNCHANGED <<serviceVars, rx, sem, agent, seen, slack, mc>>

\* clear_instances()
clear_instances ==
    /\ factory' = [factory EXCEPT !.instances = {}, !.served = {}, !.last = None]
    /\ UNCHANGED <<serviceVars, rx, sem, agent, seen, slack, mc>>

NextFactory ==
    \/ \E th \in {None} \cup {Some(t) : t \in FactoryThresholds},
          fb \in {None} \cup {Some(f) : f \in FactoryFallbacks} : get_regex_classifier(th, fb)
    \/ \E th \in {None} \cup {Some(t) : t \in FactoryThresholds},
          fb \in {None} \cup {Some(f) : f \in FactoryFallbacks} : get_semantic_classifier(th, fb)
    \/ clear_instances

SpecFactory == Init /\ [][NextFactory]_vars

(***************************************************************************)
(* Readers of the conversation store: get_history and                      *)
(* get_conversation_context called with an explicit limit.                 *)
(***************************************************************************)
Limits == 0..max_cnt

\* the read repeats the one before it: same operation and arguments, and the message
\* list is what that one left
Repeats(op, s, limit, include_system) ==
    /\ IsSome(seen)
    /\ TheVal(seen).op = op
    /\ TheVal(seen).sid = s
    /\ TheVal(seen).limit = limit
    /\ TheVal(seen).include_system = include_system
    /\ TheVal(seen).at = store[get_session_key(s)]

ReadHistory(s, limit, include_system) ==
    /\ store' = StoreAfterGet(store, get_session_key(s))
    /\ seen' = Some([op |-> "get_history", sid |-> s, limit |-> limit,
                     include_system |-> include_system,
                     result |-> GetHistory(store, s, limit, include_system),
                     again |-> Repeats("get_history", s, limit, include_system),
                     at |-> store'[get_session_key(s)]])
    /\ UNCHANGED readVars

ReadContext(s, limit) ==
    /\ store' = StoreAfterGet(store, get_session_key(s))
    /\ seen' = Some([op |-> "get_conversation_context", sid |-> s, limit |-> limit,
                     include_system |-> FALSE,
                     result |-> GetConversationContext(store, s, limit),
                     again |-> Repeats("get_conversation_context", s, limit, FALSE),
                     at |-> store'[get_session_key(s)]])
    /\ UNCHANGED readVars

NextRead ==
    \/ CreateSession(1)
    \/ \E s \in Minted, role \in {"user", "assistant", "system"} : AddMessage(s, role)
    \/ \E s \in Minted : ClearHistory(s)
    \/ \E s \in Minted : Expire(get_session_key(s))
    \/ \E s \in Minted, limit \in Limits, include_system \in BOOLEAN :
          ReadHistory(s, limit, include_system)
    \/ \E s \in Minted, limit \in Limits : ReadContext(s, limit)

SpecRead == Init /\ [][NextRead]_vars

\* settings.CACHE_BACKEND: RedisCache.get returns a deserialized copy, MemoryCache.get
\* returns the stored object itself
CacheBackends == {"redis", "memory"}

\* get_session_stats sets stats["current_message_count"] on the dict cache.get returned
StoreAfterGetStats(st, s, backend) ==
    LET stats == CacheGet(st, get_session_stats_key(s))
    IN  IF backend = "memory" /\ IsSome(stats)
        THEN [st EXCEPT ![get_session_stats_key(s)] =
                  Some([k \in DOMAIN TheVal(stats) \cup {"current_message_count"} |->
                          IF k = "current_message_count"
                          THEN Len(GetHistory(st, s, 0, FALSE))
                          ELSE TheVal(stats)[k]])]
        ELSE st

ReadStats(s, backend) ==
    /\ store' = StoreAfterGetStats(store, s, backend)
    /\ seen' = Some([op |-> "get_session_stats", sid |-> s, limit |-> 0,
                     include_system |-> FALSE,
                     result |-> IF GetSessionStats(store, s).error = ""
                                THEN <<GetSessionStats(store, s).current_message_count>>
                                ELSE <<>>,
                     again |-> FALSE,
                     at |-> store'[get_session_key(s)]])
    /\ UNCHANGED readVars

\* the three read operations among add_message and clear_history calls
NextReaders ==
    \/ CreateSession(1)
    \/ \E s \in Minted, role \in {"user", "system"} : AddMessage(s, role)
    \/ \E s \in Minted : ClearHistory(s)
    \/ \E s \in Minted, limit \in Limits, include_system \in BOOLEAN :
          ReadHistory(s, limit, include_system)
    \/ \E s \in Minted, limit \in Limits : ReadContext(s, limit)
    \/ \E s \in Minted, backend \in CacheBackends : ReadStats(s, backend)

SpecReaders == Init /\ [][NextReaders]_vars

(***************************************************************************)
(* RegexClassifier's two tables: patterns (intent name -> source text) and *)
(* compiled_patterns (intent name -> compiled pattern).  A pattern source  *)
(* is described by whether re.compile accepts it.                          *)
(***************************************************************************)
TableIntents == {"greeting", "show_sql", "export_csv"}
PatternSources == {"hello", "export", "("}
ReCompiles(pattern) == pattern # "("
ReCompile(pattern) == <<"re", pattern>>

\* what json.load can return for a patterns file
PatternFiles == UNION {[names -> PatternSources] : names \in SUBSET TableIntents}

DictSet(d, k, v) == [x \in DOMAIN d \cup {k} |-> IF x = k THEN v ELSE d[x]]
DictDel(d, k) == [x \in DOMAIN d \ {k} |-> d[x]]

\* _compile_patterns: the entries re.compile rejects are logged and skipped
CompilePatterns(patterns) ==
    [k \in {x \in DOMAIN patterns : ReCompiles(patterns[x])} |-> ReCompile(patterns[k])]

RegexClassifierInit(file) ==
    /\ rx = None
    /\ rx' = Some([patterns |-> file, compiled_patterns |-> CompilePatterns(file),
                   last |-> [op |-> "__init__", status |-> "returned"]])
    /\ UNCHANGED <<serviceVars, factory, sem, agent, seen, slack, mc>>

add_pattern(intent, pattern) ==
    /\ IsSome(rx)
    /\ LET c == TheVal(rx)
       IN  rx' = IF ReCompiles(pattern)
                 THEN Some([patterns |-> DictSet(c.patterns, intent, pattern),
                            compiled_patterns |-> DictSet(c.compiled_patterns, intent,
                                                          ReCompile(pattern)),
                            last |-> [op |-> "add_pattern", status |-> "True"]])
                 ELSE Some([c EXCEPT !.last = [op |-> "add_pattern", status |-> "False"]])
    /\ UNCHANGED <<serviceVars, factory, sem, agent, seen, slack, mc>>

remove_pattern(intent) ==
    /\ IsSome(rx)
    /\ LET c == TheVal(rx)
       IN  rx' = IF intent \in DOMAIN c.patterns
                 THEN IF intent \in DOMAIN c.compiled_patterns
                      THEN Some([patterns |-> DictDel(c.patterns, intent),
                                 compiled_patterns |-> DictDel(c.compiled_patterns, intent),
                                 last |-> [op |-> "remove_pattern", status |-> "True"]])
                      ELSE Some([patterns |-> DictDel(c.patterns, intent),
                                 compiled_patterns |-> c.compiled_patterns,
                                 last |-> [op |-> "remove_pattern", status |-> "KeyError"]])
                 ELSE Some([c EXCEPT !.last = [op |-> "remove_pattern", status |-> "False"]])
    /\ UNCHANGED <<serviceVars, factory, sem, agent, seen, slack, mc>>

NextTables ==
    \/ \E file \in PatternFiles : RegexClassifierInit(file)
    \/ \E intent \in TableIntents, pattern \in PatternSources : add_pattern(intent, pattern)
    \/ \E intent \in TableIntents : remove_pattern(intent)

SpecTables == Init /\ [][NextTables]_vars

(***************************************************************************)
(* SemanticClassifier's example lists and embedding blocks (use_embeddings *)
(* true).  model.encode(list) either returns one embedding per example or  *)
(* raises.                                                                 *)
(***************************************************************************)
MaxExamples == 2
SemIntents == {"greeting", "sql_query"}
ExampleTexts == {"hi", "hey"}
Encode(examples) == [i \in 1..Len(examples) |-> <<"emb", examples[i]>>]

\* list.remove(example): the first occurrence goes
ListRemove(l, e) ==
    LET i == CHOOSE i \in 1..Len(l) : l[i] = e /\ \A j \in 1..(i - 1) : l[j] # e
    IN  SubSeq(l, 1, i - 1) \o SubSeq(l, i + 1, Len(l))

\* _precompute_embeddings: an intent whose encode raises gets no block
PrecomputeEmbeddings(examples, ok) == [k \in ok |-> Encode(examples[k])]

\* the (example list, embedding block) pairs the loop of _classify_internal reads
ClassifyView(c) ==
    [k \in {x \in DOMAIN c.examples :
              c.examples[x] # <<>> /\ x \in DOMAIN c.embeddings_cache}
        |-> [examples |-> c.examples[k], embeddings |-> c.embeddings_cache[k]]]

SemanticClassifierInit(file, ok) ==
    /\ sem = None
    /\ sem' = Some([examples |-> file, embeddings_cache |-> PrecomputeEmbeddings(file, ok),
                    last |-> [op |-> "__init__", status |-> "returned"]])
    /\ UNCHANGED <<serviceVars, factory, rx, agent, seen, slack, mc>>

add_example(intent, example, encodes) ==
    /\ IsSome(sem)
    /\ LET c == TheVal(sem)
           examples == DictSet(c.examples, intent,
                               Append(IF intent \in DOMAIN c.examples
                                      THEN c.examples[intent] ELSE <<>>, example))
       IN  /\ intent \in DOMAIN c.examples => Len(c.examples[intent]) < MaxExamples
           /\ sem' = IF encodes
                     THEN Some([examples |-> examples,
                                embeddings_cache |-> DictSet(c.embeddings_cache, intent,
                                                             Encode(examples[intent])),
                                last |-> [op |-> "add_example", status |-> "True"]])
                     ELSE Some([examples |-> examples,
                                embeddings_cache |-> c.embeddings_cache,
                                last |-> [op |-> "add_example", status |-> "False"]])
    /\ UNCHANGED <<serviceVars, factory, rx, agent, seen, slack, mc>>

remove_example(intent, example, encodes) ==
    /\ IsSome(sem)
    /\ LET c == TheVal(sem)
           found == /\ intent \in DOMAIN c.examples
                    /\ \E i \in 1..Len(c.examples[intent]) : c.examples[intent][i] = example
           left == ListRemove(c.examples[intent], example)
       IN  sem' = IF found
                  THEN Some([examples |-> DictSet(c.examples, intent, left),
                             embeddings_cache |->
                                 IF left # <<>> /\ encodes
                                 THEN DictSet(c.embeddings_cache, intent, Encode(left))
                                 ELSE c.embeddings_cache,
                             last |-> [op |-> "remove_example", status |-> "True"]])
                  ELSE Some([c EXCEPT !.last = [op |-> "remove_example", status |-> "False"]])
    /\ UNCHANGED <<serviceVars, factory, rx, agent, seen, slack, mc>>

\* classify, as far as the tables go: it reads the pairs and changes nothing
SemanticClassifyRead ==
    /\ IsSome(sem)
    /\ sem' = Some([TheVal(sem) EXCEPT
                      !.last = [op |-> "classify", status |-> "returned",
                                view |-> ClassifyView(TheVal(sem))]])
    /\ UNCHANGED <<serviceVars, factory, rx, agent, seen, slack, mc>>

NextExamples ==
    \/ \E file \in [SemIntents -> {<<>>, <<"hi">>}], ok \in SUBSET SemIntents :
          SemanticClassifierInit(file, ok)
    \/ \E intent \in SemIntents, example \in ExampleTexts, encodes \in BOOLEAN :
          add_example(intent, example, encodes)
    \/ \E intent \in SemIntents, example \in ExampleTexts, encodes \in BOOLEAN :
          remove_example(intent, example, encodes)
    \/ SemanticClassifyRead

SpecExamples == Init /\ [][NextExamples]_vars

(***************************************************************************)
(* NL2SQLAgent._process_question in detail.  One run of the agent executor *)
(* is described by the sql_executor steps it took (tool input and the kind *)
(* of observation the tool returned) and by its final output.              *)
(***************************************************************************)
max_iterations == 3
\* AgentExecutor(...) is built without return_intermediate_steps
return_intermediate_steps == FALSE

\* observation kinds: "rows" holds "Query Results:" and a JSON list; "garbled" holds
\* "Query Results:" and text json.loads rejects; "error" holds no "Query Results:"
AgentSteps ==
    {[tool |-> "sql_executor", tool_input |-> q, observation |-> o] :
        q \in {"SELECT 1", "SELECT 2"}, o \in {"rows", "garbled", "error"}}

\* final outputs: a JSON object that parses, text in braces that does not parse, text
\* that is not in braces, or an exception out of ainvoke
AgentOutputs ==
    {[kind |-> "json_ok", sql |-> q, rows |-> r] : q \in {"", "SELECT 1"}, r \in {<<>>, <<"r1">>}}
        \cup {[kind |-> k, sql |-> "", rows |-> <<>>] : k \in {"json_bad", "text", "raise"}}

AgentRuns ==
    {[steps |-> st, output |-> o] :
        st \in UNION {[1..n -> AgentSteps] : n \in 0..max_iterations}, o \in AgentOutputs}

\* the rows the fallback reads out of an observation
ObservationRows(observation) == IF observation = "rows" THEN <<"r1">> ELSE <<>>

\* agent_result.get("intermediate_steps", [])
IntermediateSteps(run) == IF return_intermediate_steps THEN run.steps ELSE <<>>

\* the loop over the intermediate steps: the first sql_executor step, then break
FromSteps(steps) ==
    IF \E i \in 1..Len(steps) : steps[i].tool = "sql_executor"
    THEN LET i == CHOOSE i \in 1..Len(steps) :
                     /\ steps[i].tool = "sql_executor"
                     /\ \A j \in 1..(i - 1) : steps[j].tool # "sql_executor"
         IN  [sql_query |-> steps[i].tool_input,
              exec_result |-> ObservationRows(steps[i].observation)]
    ELSE [sql_query |-> "", exec_result |-> <<>>]

AgentOutputText == "agent output"

\* the structured response _process_question builds
StructuredResponse(run) ==
    IF run.output.kind = "raise"
    THEN [interpreted_answer |-> ErrorAnswer, sql_query |-> "", exec_result |-> <<>>]
    ELSE IF run.output.kind = "json_ok"
    THEN [interpreted_answer |-> InterpretedAnswer, sql_query |-> run.output.sql,
          exec_result |-> run.output.rows]
    ELSE IF run.output.kind = "text"
    THEN [interpreted_answer |-> AgentOutputText,
          sql_query |-> FromSteps(IntermediateSteps(run)).sql_query,
          exec_result |-> FromSteps(IntermediateSteps(run)).exec_result]
    ELSE [interpreted_answer |-> AgentOutputText, sql_query |-> "", exec_result |-> <<>>]

ProcessQuestionCall(run) ==
    /\ agent = None
    /\ agent' = Some([run |-> run, queries |-> Len(run.steps),
                      structured_response |-> StructuredResponse(run)])
    /\ UNCHANGED <<serviceVars, factory, rx, sem, seen, slack, mc>>

NextAgent == agent = None /\ \E run \in AgentRuns : ProcessQuestionCall(run)

SpecAgent == Init /\ [][NextAgent]_vars

(***************************************************************************)
(* The metadata of the similarity classifier's results.                    *)
(***************************************************************************)
\* texts no pattern matches, as the similarity classifier is given
SimilarityTexts ==
    [len : 0..MaxTextLen, m : {[i \in 1..Len(PatternNames) |-> NoMatch]},
     best : BestNames, sim : SimLevels]

\* _classify_internal without the embedding backend: an example counts only when its
\* similarity is above 0.0
SimpleClassifyInternal(t) ==
    IF t.best # "none" /\ t.sim > 0
    THEN IntentResult(ToIntent(t.best), t.sim)
    ELSE IntentResult("sql_query", 1000)

\* the metadata _classify_internal attaches
SemanticMetadata(use_embeddings) ==
    [classifier |-> "semantic", best_example |-> "example",
     similarity_method |-> IF use_embeddings THEN "embeddings" ELSE "simple"]

\* BaseClassifier.classify: the metadata of what it returns
BaseClassifyMetadata(result, metadata, threshold) ==
    IF result.confidence < threshold
    THEN [original_intent |-> result.intent, original_confidence |-> result.confidence,
          fallback_reason |-> "Low confidence"]
    ELSE metadata

SemanticClassifyCall(t, use_embeddings) ==
    LET internal == IF use_embeddings THEN SemanticClassifyInternal(t)
                    ELSE SimpleClassifyInternal(t)
    IN  /\ cls = None
        /\ cls' = Some([text |-> t, use_embeddings |-> use_embeddings,
                        sguess |-> internal,
                        semantic |-> BaseClassify(internal, SemanticThreshold, SemanticFallback),
                        metadata |-> BaseClassifyMetadata(internal,
                                         SemanticMetadata(use_embeddings), SemanticThreshold)])
        /\ UNCHANGED <<store, up, nextSid, nextId, am, se, resp, log, lastOk, lastStore,
                       added, factory, rx, sem, agent, seen, slack, mc>>

NextSimilarity ==
    cls = None /\ \E t \in SimilarityTexts, use_embeddings \in BOOLEAN :
                     SemanticClassifyCall(t, use_embeddings)

SpecSimilarity == Init /\ [][NextSimilarity]_vars

(***************************************************************************)
(* The Slack events endpoint (app/api/slack.py): message events and the    *)
(* processed_events set.  The set is emptied when it grows beyond          *)
(* MaxProcessed entries (1000 in the code).                                *)
(***************************************************************************)
EventIds == 1..(MaxProcessed + 1)

\* "if len(processed_events) > 1000: processed_events.clear()"
TrimProcessed(events) == IF Cardinality(events) > MaxProcessed THEN {} ELSE events

\* a message event with event_ts e is delivered; success is what run answers
slack_events(e, success) ==
    /\ slack.runs[e] < MaxDispatch
    /\ slack' = IF e \in slack.processed_events
                THEN [slack EXCEPT !.last = [event_ts |-> e, status |-> "duplicate"]]
                ELSE [processed_events |-> TrimProcessed(slack.processed_events \cup {e}),
                      runs |-> [slack.runs EXCEPT ![e] = @ + 1],
                      last |-> [event_ts |-> e,
                                status |-> IF success THEN "ok" ELSE "error_handled"]]
    /\ UNCHANGED <<serviceVars, factory, rx, sem, agent, seen, mc>>

NextSlack == \E e \in EventIds, success \in BOOLEAN : slack_events(e, success)

SpecSlack == Init /\ [][NextSlack]_vars

(***************************************************************************)
(* MemoryCache (app/cache/memory_cache.py).  Every operation runs under    *)
(* self._lock, an asyncio.Lock, which a task cannot take twice; lock is 0  *)
(* when free and the caller's number when held.  lastSet is history: per   *)
(* key, the most recent set not followed by a delete or clear of the key   *)
(* (value, ttl, at), and the expiry last given to the key by that set or   *)
(* by a later expire that returned True (exp_ttl, exp_at).                 *)
(***************************************************************************)
CACHE_TTL == 3600
MemKeys == {"k1", "k2"}
MemValues == {"a", "b"}
TtlArgs == {None, Some(0), Some(1)}

\* an item without "expires_at"
NoExpiry == -1

\* set: "if ttl is None: ttl = settings.CACHE_TTL", "if ttl > 0: item['expires_at'] = ..."
EffectiveTtl(ttl) == IF IsSome(ttl) THEN TheVal(ttl) ELSE CACHE_TTL
MemItem(value, ttl, now) ==
    [value |-> value,
     expires_at |-> IF EffectiveTtl(ttl) > 0 THEN now + EffectiveTtl(ttl) ELSE NoExpiry]

\* _is_expired
IsExpiredNever(item, now) == FALSE
IsExpired(item, now) == item.expires_at # NoExpiry /\ now > item.expires_at

\* _cleanup_expired
CleanupExpired(cache, now) ==
    [k \in DOMAIN cache |->
        IF IsSome(cache[k]) /\ IsExpired(TheVal(cache[k]), now) THEN None ELSE cache[k]]

\* get(key)
MemGet(k) ==
    /\ mc.lock = 0
    /\ LET cache == CleanupExpired(mc.cache, mc.now)
           hit == IsSome(cache[k]) /\ ~IsExpired(TheVal(cache[k]), mc.now)
       IN  mc' = [mc EXCEPT !.cache = IF hit THEN cache ELSE [cache EXCEPT ![k] = None],
                            !.last = [op |-> "get", key |-> k, now |-> mc.now,
                                      set |-> mc.lastSet[k],
                                      result |-> IF hit THEN Some(TheVal(cache[k]).value)
                                                 ELSE None]]
    /\ UNCHANGED <<serviceVars, factory, rx, sem, agent, seen, slack>>

\* set(key, value, ttl)
MemSet(k, v, ttl) ==
    /\ mc.lock = 0
    /\ mc' = [mc EXCEPT !.cache[k] = Some(MemItem(v, ttl, mc.now)),
                        !.lastSet[k] = Some([value |-> v, ttl |-> EffectiveTtl(ttl),
                                             at |-> mc.now, exp_ttl |-> EffectiveTtl(ttl),
                                             exp_at |-> mc.now]),
                        !.last = [op |-> "set"]]
    /\ UNCHANGED <<serviceVars, factory, rx, sem, agent, seen, slack>>

\* delete(key)
MemDelete(k) ==
    /\ mc.lock = 0
    /\ mc' = [mc EXCEPT !.cache[k] = None, !.lastSet[k] = None, !.last = [op |-> "delete"]]
    /\ UNCHANGED <<serviceVars, factory, rx, sem, agent, seen, slack>>

\* exists(key)
MemExists(k) ==
    /\ mc.lock = 0
    /\ LET cache == CleanupExpired(mc.cache, mc.now)
           hit == IsSome(cache[k]) /\ ~IsExpired(TheVal(cache[k]), mc.now)
       IN  mc' = [mc EXCEPT !.cache = IF hit THEN cache ELSE [cache EXCEPT ![k] = None],
                            !.last = [op |-> "exists", key |-> k, result |-> hit]]
    /\ UNCHANGED <<serviceVars, factory, rx, sem, agent, seen, slack>>

\* expire(key, ttl): no _cleanup_expired here; an expired key is deleted, a live one
\* gets a new "expires_at" (ttl > 0) or loses it
MemExpire(k, ttl) ==
    /\ mc.lock = 0
    /\ LET hit == IsSome(mc.cache[k]) /\ ~IsExpired(TheVal(mc.cache[k]), mc.now)
       IN  mc' = [mc EXCEPT
                    !.cache[k] = IF hit THEN Some(MemItem(TheVal(mc.cache[k]).value,
                                                          Some(ttl), mc.now))
                                 ELSE None,
                    !.lastSet[k] = IF hit /\ IsSome(mc.lastSet[k])
                                   THEN Some([TheVal(mc.lastSet[k]) EXCEPT
                                                !.exp_ttl = ttl, !.exp_at = mc.now])
                                   ELSE @,
                    !.last = [op |-> "expire", key |-> k, result |-> hit]]
    /\ UNCHANGED <<serviceVars, factory, rx, sem, agent, seen, slack>>

\* clear(pattern): keys is the set of keys the pattern matches (all keys without pattern)
MemClear(keys) ==
    /\ mc.lock = 0
    /\ mc' = [mc EXCEPT !.cache = [k \in MemKeys |-> IF k \in keys THEN None ELSE @[k]],
                        !.lastSet = [k \in MemKeys |-> IF k \in keys THEN None ELSE @[k]],
                        !.last = [op |-> "clear"]]
    /\ UNCHANGED <<serviceVars, factory, rx, sem, agent, seen, slack>>

\* increment(key, amount) by caller p: it takes the lock and, holding it, awaits
\* self.get(key), which waits for the same lock
MemIncrement(p, k) ==
    /\ mc.lock = 0
    /\ mc' = [mc EXCEPT !.lock = p, !.blocked = {p},
                        !.last = [op |-> "increment", key |-> k, status |-> "waiting"]]
    /\ UNCHANGED <<serviceVars, factory, rx, sem, agent, seen, slack>>

\* any operation called by q while the lock is held waits for it
MemWait(q) ==
    /\ mc.lock # 0
    /\ q \notin mc.blocked
    /\ mc' = [mc EXCEPT !.blocked = @ \cup {q}]
    /\ UNCHANGED <<serviceVars, factory, rx, sem, agent, seen, slack>>

\* time passes
MemTick ==
    /\ mc.now < MaxTime
    /\ mc' = [mc EXCEPT !.now = @ + 1]
    /\ UNCHANGED <<serviceVars, factory, rx, sem, agent, seen, slack>>

NextMemory ==
    \/ \E k \in MemKeys : MemGet(k)
    \/ \E k \in MemKeys, v \in MemValues, ttl \in TtlArgs : MemSet(k, v, ttl)
    \/ \E k \in MemKeys : MemDelete(k)
    \/ \E k \in MemKeys : MemExists(k)
    \/ \E k \in MemKeys, ttl \in {0, 1} : MemExpire(k, ttl)
    \/ \E keys \in SUBSET MemKeys : MemClear(keys)
    \/ \E p \in Procs, k \in MemKeys : MemIncrement(p, k)
    \/ \E q \in Procs : MemWait(q)
    \/ MemTick

SpecMemory == Init /\ [][NextMemory]_vars

(***************************************************************************)
(* Claims about the conversation store.                                    *)
(***************************************************************************)
StoredHistory(s) == OrElse(store[get_session_key(s)], <<>>)

\* C2: in every reachable state, whatever create_session, add_message and clear_history
\* calls were made and however add_message calls on one session interleave at the store
\* calls, the message list stored for a session has at most 2 x max_turns entries.
C2_HistoryBounded ==
    \A s \in SessionIds : Len(StoredHistory(s)) <= 2 * MaxTurns

\* two callers have both read the full list of one session before either wrote it back
C2_Witness ==
    \E s \in SessionIds :
        /\ Len(StoredHistory(s)) = 2 * MaxTurns
        /\ \A p \in Procs : am[p].pc = "got" /\ am[p].sid = s /\ Len(am[p].cur) = 2 * MaxTurns

\* C3: after n add_message calls issued one after another on a session, with no expiry
\* and no clear_history in between, the stored history is the last min(n, 2 x max_turns)
\* messages appended, oldest first.
C3_LastMessagesKept ==
    \A s \in SessionIds :
        log[s].clean =>
            StoredHistory(s) = LastN(log[s].msgs, Min(Len(log[s].msgs), 2 * MaxTurns))

\* more sequential appends than the window holds
C3_Witness ==
    \E s \in SessionIds :
        /\ log[s].clean
        /\ Len(log[s].msgs) > 2 * MaxTurns
        /\ ~AmBusy(s)

(***************************************************************************)
(* Claims about the result cache and run.                                  *)
(***************************************************************************)
CachedSql(s) == store[get_sql_key(s)]
CachedRows(s) == store[get_exec_res_key(s)]

C4_LastStoredPair ==
    \A s \in SessionIds :
        IsSome(lastStore[s]) =>
            /\ get_last_sql(store, s) = Some(TheVal(lastStore[s]).sql)
            /\ get_last_exec_res(store, s) = Some(TheVal(lastStore[s]).rows)

\* a second store has replaced a different sql
C4_Witness ==
    \E s \in SessionIds :
        /\ IsSome(lastStore[s])
        /\ TheVal(lastStore[s]).second
        /\ TheVal(lastStore[s]).sql = "SELECT 2"

\* C5: when the pattern classifier's result is below its threshold, run dispatches on the
\* intent the similarity classifier returns for the same text, whatever the pattern
\* classifier guessed; when it is confident, run dispatches on the pattern classifier's intent.
C5_EffectiveIntent ==
    (IsSome(cls) /\ TheVal(cls).regex.exc = "") =>
        LET c == TheVal(cls)
        IN  IF c.regex.confidence < RegexThreshold
            THEN c.trace.intent = c.semantic.intent
            ELSE c.trace.intent = c.regex.intent

\* the pattern classifier guessed a greeting without confidence and the similarity
\* classifier said show_sql
C5_Witness ==
    /\ IsSome(cls)
    /\ TheVal(cls).guess.intent = "greeting"
    /\ TheVal(cls).guess.confidence < RegexThreshold
    /\ TheVal(cls).semantic.intent = "show_sql"
    /\ TheVal(cls).trace.intent = "show_sql"

\* C6: on SQL_QUERY with the backend succeeding, run stores the returned sql and rows in
\* the session's result cache and returns success=true, the backend's interpretation as
\* answer, the rows as data, and type table for more than one row, text otherwise.
C6_SqlQuerySuccess ==
    (resp.status # "none" /\ resp.intent = "sql_query" /\ resp.backend = "ok") =>
        LET s == resp.session_id
        IN  /\ resp.status = "returned"
            /\ resp.success
            /\ resp.answer = InterpretedAnswer
            /\ IsSome(lastOk[s]) =>
                   LET o == TheVal(lastOk[s])
                   IN  /\ resp.data = RowData(o.rows)
                       /\ resp.type = IF Len(o.rows) > 1 THEN "table" ELSE "text"
                       /\ resp.post = [sql |-> Some(o.sql), rows |-> Some(o.rows)]

\* C7: on SQL_QUERY with the backend failing, run returns success=false with the failure
\* explanation as answer, and the session's cached sql and rows are what they were.
C7_SqlQueryFailure ==
    (resp.status # "none" /\ resp.intent = "sql_query" /\ resp.backend = "error") =>
        /\ resp.status = "returned"
        /\ ~resp.success
        /\ resp.answer = ErrorAnswer
        /\ resp.post = resp.pre

\* C8: SHOW_SQL returns success=true, type sql and the last stored sql when one is present,
\* and success=false with the "no prior query" answer and type text when there is none;
\* so after a successful SQL_QUERY on the session SHOW_SQL succeeds with that query's sql.
C8_ShowSql ==
    (resp.status # "none" /\ resp.intent = "show_sql") =>
        LET s == resp.session_id
        IN  /\ resp.status = "returned"
            /\ IF IsSome(resp.pre.sql)
               THEN resp.success /\ resp.type = "sql" /\ resp.data = Str(TheVal(resp.pre.sql))
               ELSE ~resp.success /\ resp.answer = NoQueryAnswer /\ resp.type = "text"
            /\ IsSome(lastOk[s]) =>
                   resp.success /\ resp.data = Str(TheVal(lastOk[s]).sql)

\* C9: EXPORT_CSV returns success=true, type download and the download reference whenever
\* last rows are present, whatever their number, and success=false only when no rows are stored.
C9_ExportCsv ==
    (resp.status = "returned" /\ resp.intent = "export_csv") =>
        IF IsSome(resp.pre.rows)
        THEN resp.success /\ resp.type = "download" /\ resp.data = Str("url")
        ELSE ~resp.success /\ resp.answer = NoQueryAnswer

\* C10: on GREETING run returns success=true, type text and the greeting; with no session
\* id supplied the response carries a newly created, non-empty session id.
C10_Greeting ==
    (resp.status # "none" /\ resp.intent = "greeting") =>
        /\ resp.status = "returned"
        /\ resp.success
        /\ resp.type = "text"
        /\ resp.answer = HelloAnswer
        /\ resp.minted =>
               /\ resp.session_id # NoSession
               /\ resp.fresh
               /\ resp.session_id \in Minted

\* a greeting answered on a session the call created
C10_Witness ==
    /\ resp.status = "returned"
    /\ resp.intent = "greeting"
    /\ resp.minted
    /\ resp.session_id = 2

(***************************************************************************)
(* Claims about what run records, raises and returns.                      *)
(***************************************************************************)
\* C11: every call of run that returns, whatever the effective intent and whether the
\* branch succeeded, has appended the user's message and the reply to the session's history.
C11_TurnsRecorded ==
    resp.status = "returned" =>
        /\ Len(resp.appended) >= 2
        /\ resp.appended[1][1] = "user"
        /\ resp.appended[2][1] \in {"assistant", "system"}

\* C12: no call of run raises: every call returns a response, with success=false and a
\* non-empty answer when the backend failed.
C12_NothingEscapes ==
    resp.status # "none" =>
        /\ resp.status = "returned"
        /\ resp.backend = "error" => (~resp.success /\ resp.answer # "")

\* C13: a response returned by run has one type of text, table, sql, download, and data
\* of the matching shape: more than one row for table, the sql string for sql, the
\* download reference for download, a string for text.
C13_TypeMatchesData ==
    resp.status = "returned" =>
        /\ resp.type \in {"text", "table", "sql", "download"}
        /\ resp.type = "table" => (resp.data.t = "rows" /\ Len(resp.data.v) > 1)
        /\ resp.type = "sql" => (IsSome(resp.pre.sql) /\ resp.data = Str(TheVal(resp.pre.sql)))
        /\ resp.type = "download" => resp.data = Str("url")
        /\ resp.type = "text" => resp.data.t = "str"

\* a returned response of type sql and one of type download
C13_Witness ==
    /\ resp.status = "returned"
    /\ resp.type = "sql"
    /\ resp.data = Str("SELECT 1")

\* C16: when the backend fails on a question, the failure is appended to the history as
\* a system message, which a read with include_system=false does not show.
C16_FailureIsSystemMessage ==
    (resp.status # "none" /\ resp.intent = "sql_query" /\ resp.backend = "error") =>
        /\ \E i \in 1..Len(resp.appended) : resp.appended[i] = <<"system", ErrorAnswer>>
        /\ \A i \in 1..Len(resp.visible) : resp.visible[i][2] # ErrorAnswer

(***************************************************************************)
(* Claims about the classifiers.                                           *)
(***************************************************************************)
\* C17: for every text, the empty one included, classify of both classifiers returns
\* normally, with one of the five intents and a confidence between 0 and 1.
C17_ClassifyTotal ==
    IsSome(cls) =>
        \A r \in {TheVal(cls).regex, TheVal(cls).semantic} :
            /\ r.exc = ""
            /\ r.intent \in Intents
            /\ r.confidence \in 0..10000

\* C18: when no pattern matches the text, classify of the pattern classifier returns
\* SQL_QUERY with confidence 0.1.
C18_NoMatchIsSqlQuery ==
    (IsSome(cls) /\ \A i \in 1..Len(PatternNames) : TheVal(cls).text.m[i] = NoMatch) =>
        TheVal(cls).regex = IntentResult("sql_query", 1000)

\* C19: when the best similarity is below the similarity classifier's threshold, classify
\* returns the best-matching intent with that similarity as confidence, unreplaced.
C19_BestGuessKept ==
    (IsSome(cls) /\ TheVal(cls).text.best # "none"
                 /\ TheVal(cls).text.sim < SemanticThreshold) =>
        TheVal(cls).semantic = IntentResult(ToIntent(TheVal(cls).text.best), TheVal(cls).text.sim)

\* C20: when patterns configured for intents match the whole normalized text, classify of
\* the pattern classifier returns the first of these intents with confidence 0.95.
C20_WholeMatch ==
    IsSome(cls) =>
        LET t == TheVal(cls).text
            whole == {i \in 1..Len(PatternNames) : t.m[i] = t.len /\ PatternNames[i] \in Intents}
        IN  whole # {} =>
                \E i \in whole :
                    /\ \A j \in whole : i <= j
                    /\ TheVal(cls).regex = IntentResult(PatternNames[i], 9500)

(***************************************************************************)
(* Claims about add_message under overlap and store failure.               *)
(***************************************************************************)
\* C14: when two add_message calls on one session have both read the list before either
\* wrote it back and both have written, the stored list holds at most one of their two
\* messages: the update of the first writer is lost.
C14_LostUpdate ==
    \A p, q \in Procs :
        (/\ p # q
         /\ am[p].pc \in {"stats", "statsw"} /\ am[q].pc \in {"stats", "statsw"}
         /\ am[p].sid = am[q].sid
         /\ ~InSeq(am[p].cur, am[q].msg) /\ ~InSeq(am[q].cur, am[p].msg)) =>
            ~(InSeq(StoredHistory(am[p].sid), am[p].msg) /\ InSeq(StoredHistory(am[p].sid), am[q].msg))

\* both calls are past their write and the stored list is the second writer's alone
C14_Witness ==
    /\ \A p \in Procs : am[p].pc = "statsw" /\ am[p].sid = 1 /\ Len(am[p].cur) = 1
    /\ Len(StoredHistory(1)) = 1
    /\ \E p \in Procs : InSeq(StoredHistory(1), am[p].msg)

\* C15: add_message returns false when the store failed during the call, and returns
\* true only if the message is in the stored history.
C15_FalseOnStoreFailure ==
    IsSome(added) =>
        /\ TheVal(added).failed => ~TheVal(added).ret
        /\ TheVal(added).ret => TheVal(added).written

(***************************************************************************)
(* Claims about the classifier factory and the classifiers' tables.        *)
(***************************************************************************)
\* C21: no request to the factory raises; two served requests got the same instance
\* exactly when they agree in type, threshold and fallback; and every served instance has
\* the requested threshold and fallback.
C21_SharedPerKey ==
    /\ IsSome(factory.last) => TheVal(factory.last).status = "returned"
    /\ \A a, b \in factory.served :
          (a.type = b.type /\ a.threshold = b.threshold /\ a.fallback = b.fallback)
              <=> (a.inst.id = b.inst.id)
    /\ \A a \in factory.served :
          a.inst.threshold = a.threshold /\ a.inst.fallback = a.fallback

(***************************************************************************)
(* Claims about clear_history and the readers of the conversation store.   *)
(***************************************************************************)
\* C22: the cached query result of a session is removed by clear_history and by nothing
\* else: a step that is clear_history(s) leaves get_last_sql(s) and get_last_exec_res(s)
\* absent, and a step that makes a readable cached statement or row set absent is a
\* clear_history(s).
C22_RemovedByClearOnly ==
    [][\A s \in SessionIds :
          /\ ClearHistory(s) =>
                /\ get_last_sql(store', s) = None
                /\ get_last_exec_res(store', s) = None
          /\ (\/ IsSome(get_last_sql(store, s)) /\ get_last_sql(store', s) = None
              \/ IsSome(get_last_exec_res(store, s)) /\ get_last_exec_res(store', s) = None)
                => ClearHistory(s)]_vars

\* C23: from the return of clear_history(s) with true until the next write to s,
\* get_history(s, include_system=true) is empty and get_session_stats(s) is not-found.
C23_ClearedIsAbsent ==
    \A s \in SessionIds :
        log[s].cleared =>
            /\ GetHistory(store, s, 0, TRUE) = <<>>
            /\ GetSessionStats(store, s).error = "Session not found"

\* C24: a get_conversation_context(s, limit) that follows another one with the same
\* arguments, the message list of s being what the first one left, returns the same lines.
C24_ContextRepeatable ==
    [][\A s \in SessionIds, limit \in Limits :
          (/\ IsSome(seen) /\ IsSome(seen')
           /\ TheVal(seen).op = "get_conversation_context"
           /\ TheVal(seen').op = "get_conversation_context"
           /\ ReadContext(s, limit)
           /\ TheVal(seen).sid = s
           /\ TheVal(seen).limit = limit
           /\ TheVal(seen).at = store[get_session_key(s)])
             => TheVal(seen').result = TheVal(seen).result]_vars

\* a second get_conversation_context on a non-empty list right after a first one
C24_Witness ==
    /\ IsSome(seen)
    /\ TheVal(seen).op = "get_conversation_context"
    /\ TheVal(seen).again
    /\ TheVal(seen).result # <<>>
    /\ TheVal(seen).limit = 1
    /\ Len(StoredHistory(TheVal(seen).sid)) = 2

\* C30: get_history(s, limit=n) returns at most n messages, the n most recent of those
\* left by the role filter in the stored order, and no system message when
\* include_system is false.
C30_LimitRespected ==
    (IsSome(seen) /\ TheVal(seen).op = "get_history") =>
        LET r == TheVal(seen)
            history == OrElse(r.at, <<>>)
            kept == IF r.include_system THEN history
                    ELSE SelectSeq(history, LAMBDA msg : msg.role # "system")
        IN  /\ Len(r.result) <= r.limit
            /\ r.result = LastN(kept, r.limit)
            /\ ~r.include_system => \A i \in 1..Len(r.result) : r.result[i].role # "system"

(***************************************************************************)
(* Claims about the classifiers' tables.                                   *)
(***************************************************************************)
\* C25: after construction and after any add_pattern or remove_pattern the raw-pattern
\* map and the compiled-pattern map have the same keys, no pattern that fails to compile
\* is in either of them, and remove_pattern has not failed with KeyError.
C25_TablesAgree ==
    IsSome(rx) =>
        LET c == TheVal(rx)
        IN  /\ DOMAIN c.patterns = DOMAIN c.compiled_patterns
            /\ \A k \in DOMAIN c.patterns : ReCompiles(c.patterns[k])
            /\ c.last.status # "KeyError"

\* C26: a classify that runs after construction, add_example or remove_example reads, for
\* every intent it scores, an example list and an embedding block of equal length, the
\* block being the embeddings of that list, also when recomputing the embeddings failed.
C26_ExamplesMatchEmbeddings ==
    (IsSome(sem) /\ TheVal(sem).last.op = "classify") =>
        \A k \in DOMAIN TheVal(sem).last.view :
            LET pair == TheVal(sem).last.view[k]
            IN  /\ Len(pair.examples) = Len(pair.embeddings)
                /\ pair.embeddings = Encode(pair.examples)

(***************************************************************************)
(* Claims about a store_exec_result in progress.                           *)
(***************************************************************************)
\* C27: while store_exec_result(s, sql2, rows2) is between its two store calls, after a
\* completed store of (sql1, rows1) and with no other store or expiry on s, the reads
\* answer the new statement with the old rows, and never the old statement with the
\* new rows.
C27_NewSqlOldRows ==
    \A p \in Procs :
        (se[p].pc = "sql_set" /\ se[p].clean /\ IsSome(se[p].old)) =>
            LET s == se[p].sid
                old == TheVal(se[p].old)
            IN  /\ get_last_sql(store, s) = Some(se[p].sql)
                /\ get_last_exec_res(store, s) = Some(old.rows)
                /\ (old.sql # se[p].sql /\ old.rows # se[p].rows) =>
                      ~(/\ get_last_sql(store, s) = Some(old.sql)
                        /\ get_last_exec_res(store, s) = Some(se[p].rows))

\* a store of ("SELECT 2", two rows) is in progress after a completed store of
\* ("SELECT 1", one row), and the reads answer "SELECT 2" with the one row
C27_Witness ==
    \E p \in Procs :
        /\ se[p].pc = "sql_set" /\ se[p].clean
        /\ se[p].old = Some([sql |-> "SELECT 1", rows |-> <<"r1">>])
        /\ se[p].sql = "SELECT 2" /\ se[p].rows = <<"r1", "r2">>
        /\ get_last_sql(store, se[p].sid) = Some("SELECT 2")
        /\ get_last_exec_res(store, se[p].sid) = Some(<<"r1">>)

(***************************************************************************)
(* Claims about one call of the generation backend.                        *)
(***************************************************************************)
\* C28: one call of _process_question executes at most one SQL query through sql_executor.
C28_AtMostOneQuery ==
    IsSome(agent) => TheVal(agent).queries <= 1

\* C29: when the final output is not well-formed JSON (not in braces, or in braces and
\* failing to parse), sql and rows of the response are those of a sql_executor step of the
\* run when there is one, and the empty statement and row set only when there is none.
C29_FallbackFromTrace ==
    (IsSome(agent) /\ TheVal(agent).run.output.kind \in {"text", "json_bad"}) =>
        LET a == TheVal(agent)
            steps == a.run.steps
        IN  IF steps # <<>>
            THEN \E i \in 1..Len(steps) :
                    /\ a.structured_response.sql_query = steps[i].tool_input
                    /\ a.structured_response.exec_result = ObservationRows(steps[i].observation)
            ELSE /\ a.structured_response.sql_query = ""
                 /\ a.structured_response.exec_result = <<>>

(***************************************************************************)
(* Claims about the branches of run that do not call the backend.          *)
(***************************************************************************)
\* C31: a run whose effective intent is SHOW_SQL or EXPORT_CSV leaves the session's cached
\* sql and cached rows as they were before the call, whether it returns or raises.
C31_ReadBranchesKeepCache ==
    (resp.status # "none" /\ resp.intent \in {"show_sql", "export_csv"}) =>
        /\ resp.post.sql = resp.pre.sql
        /\ resp.post.rows = resp.pre.rows

\* a SHOW_SQL run answered with the cached statement, which is still cached
C31_Witness ==
    /\ resp.status = "returned"
    /\ resp.intent = "show_sql"
    /\ resp.success
    /\ resp.pre.sql = Some("SELECT 1")
    /\ resp.post.sql = Some("SELECT 1")

\* C33: a run whose effective intent is UNKNOWN calls no backend, leaves the cached sql
\* and rows as they were, appends no message to the history, and returns success false,
\* type "text" and an empty answer.
C33_UnknownDoesNothing ==
    (resp.status # "none" /\ resp.intent = "unknown") =>
        /\ resp.status = "returned"
        /\ resp.backend = "-"
        /\ resp.post = resp.pre
        /\ resp.appended = <<>>
        /\ ~resp.success
        /\ resp.type = "text"
        /\ resp.answer = ""
        /\ resp.data = Str("")

\* a run on an existing session with cached sql classified as UNKNOWN
C33_Witness ==
    /\ resp.status = "returned"
    /\ resp.intent = "unknown"
    /\ ~resp.minted
    /\ resp.pre.sql = Some("SELECT 1")

(***************************************************************************)
(* Claims about the similarity classifier's metadata.                      *)
(***************************************************************************)
\* C32: every result classify of the similarity classifier returns, confident or not,
\* has metadata.similarity_method, "embeddings" when the embedding backend was used and
\* "simple" when the token-set fallback was used.
C32_MethodInMetadata ==
    IsSome(cls) =>
        LET c == TheVal(cls)
        IN  /\ "similarity_method" \in DOMAIN c.metadata
            /\ c.metadata.similarity_method =
                  (IF c.use_embeddings THEN "embeddings" ELSE "simple")

(***************************************************************************)
(* Claims about the session stats.                                         *)
(***************************************************************************)
\* C34: for a session created by create_session and written only by add_message calls
\* issued one after another, the stored message_count is the number of add_message calls
\* that returned true, and the record is still the one create_session made.
C34_CountsReturnedCalls ==
    (IsSome(added) /\ up) =>
        LET stats == store[get_session_stats_key(TheVal(added).sid)]
        IN  /\ IsSome(stats)
            /\ TheVal(stats).message_count = TheVal(added).calls
            /\ TheVal(stats).created

(***************************************************************************)
(* Claims about the result cache between calls.                            *)
(***************************************************************************)
\* C35: whenever no store_exec_result call is in progress for a session, its cached sql
\* and cached rows are both absent or both present (and then written by the same call),
\* whatever the interleaving of the calls and the expiry of keys.  The formula states
\* the first half: one key is never present without the other.
C35_BothOrNeither ==
    \A s \in SessionIds :
        ~SeBusy(s) => (IsSome(get_last_sql(store, s)) <=> IsSome(get_last_exec_res(store, s)))

(***************************************************************************)
(* Claims about separate sessions.                                         *)
(***************************************************************************)
KeysOf(t) == {k \in Keys : k[2] = t}

\* the step is a store call (or the whole, for clear_history and run) of a call on s
ActsOn(s) ==
    \/ \E p \in Procs : am[p].pc = "idle" /\ am'[p].pc = "got" /\ am'[p].sid = s
    \/ \E p \in Procs : am[p].pc # "idle" /\ am[p].sid = s /\ am'[p] # am[p]
    \/ \E p \in Procs : se[p].pc = "idle" /\ se'[p].pc = "sql_set" /\ se'[p].sid = s
    \/ \E p \in Procs : se[p].pc = "sql_set" /\ se[p].sid = s /\ se'[p].pc = "idle"
    \/ log'[s] # log[s] /\ log'[s].cleared
    \/ resp.status = "none" /\ resp'.status # "none" /\ resp'.session_id = s

\* C36: a step of add_message, clear_history, store_exec_result or run on session s leaves
\* the stored history, the stats, the cached sql and the cached rows of every other
\* session as they were, however the calls on different sessions interleave.
C36_OtherSessionsUntouched ==
    [][\A s \in SessionIds :
          ActsOn(s) => \A t \in SessionIds \ {s} : \A k \in KeysOf(t) : store'[k] = store[k]]_vars

\* session 2 holds a history, stats and a cached result, and run has since written its
\* question and answer to the history of session 1
C36_Witness ==
    /\ resp.status # "none" /\ resp.session_id = 1 /\ resp.intent = "sql_query"
    /\ StoredHistory(2) # <<>>
    /\ IsSome(store[get_session_stats_key(2)])
    /\ get_last_sql(store, 2) = Some("SELECT 1")
    /\ IsSome(get_last_exec_res(store, 2))
    /\ \E i \in 1..Len(StoredHistory(1)) :
          /\ StoredHistory(1)[i].role = "assistant"
          /\ \A j \in 1..Len(StoredHistory(2)) : StoredHistory(2)[j].id < StoredHistory(1)[i].id

(***************************************************************************)
(* Claims about the read operations.                                       *)
(***************************************************************************)
\* C37: a step of get_history, get_conversation_context or get_session_stats (the steps
\* that leave everything but the store and the reader's result alone) leaves the stored
\* history and the stored stats of every session as they were.
C37_ReadsKeepStore ==
    [][UNCHANGED readVars =>
          \A s \in SessionIds :
              /\ store'[get_session_key(s)] = store[get_session_key(s)]
              /\ store'[get_session_stats_key(s)] = store[get_session_stats_key(s)]]_vars

(***************************************************************************)
(* Claims about the Slack events endpoint.                                 *)
(***************************************************************************)
\* C38: a message event is dispatched to run at most once per event_ts, however many
\* other events are received between two deliveries of it.
C38_OncePerEvent ==
    \A e \in EventIds : slack.runs[e] <= 1

(***************************************************************************)
(* Claims about MemoryCache.                                               *)
(***************************************************************************)
\* C39: increment returns and leaves the cache lock free, so that later cache operations
\* can proceed: the lock is never held by a caller that is itself waiting for it, and no
\* caller waits forever.
C39_IncrementReleasesLock ==
    mc.lock \notin mc.blocked /\ (mc.last.op = "increment" => mc.lock = 0)

\* C40: get(k) returns the value of the most recent set(k, v, ttl) not followed by a
\* delete or clear of k when the expiry last given to k, by that set or by a later
\* expire(k, ttl) that returned True, is not positive or has not run out, and None in
\* every other case.
C40_GetReturnsLiveValue ==
    mc.last.op = "get" =>
        LET set == mc.last.set
            live == /\ IsSome(set)
                    /\ \/ TheVal(set).exp_ttl <= 0
                       \/ mc.last.now <= TheVal(set).exp_at + TheVal(set).exp_ttl
        IN  mc.last.result = IF live THEN Some(TheVal(set).value) ELSE None

\* a get after the expiry that an expire gave to a set without expiry ran out, answered
\* None
C40_Witness ==
    /\ mc.last.op = "get"
    /\ IsSome(mc.last.set)
    /\ TheVal(mc.last.set).ttl <= 0
    /\ TheVal(mc.last.set).exp_ttl > 0
    /\ mc.last.now > TheVal(mc.last.set).exp_at + TheVal(mc.last.set).exp_ttl
    /\ mc.last.result = None

\* C40 as stated: the ttl of the set alone decides whether get(k) returns the value
C40_SetTtlDecides ==
    mc.last.op = "get" =>
        LET set == mc.last.set
            live == /\ IsSome(set)
                    /\ (TheVal(set).ttl <= 0 \/ mc.last.now <= TheVal(set).at + TheVal(set).ttl)
        IN  mc.last.result = IF live THEN Some(TheVal(set).value) ELSE None

=============================================================================
